---------------------------- MODULE Spec2Model ----------------------------
(***************************************************************************)
(* Job orchestration of the video generation service: the in-memory       *)
(* registry (app/services/storage.py), the admission check and the        *)
(* HTTP handlers (app/api/routes.py) and the background pipeline driver   *)
(* generate_video_task with its two stages (script_generator.py,          *)
(* video_processor.py).                                                    *)
(*                                                                         *)
(* Scheduling.  Every route and the driver are `async def`, and the app   *)
(* is served by one uvicorn process (main.py:45), so all of them run on   *)
(* one event-loop thread and interleave only at `await`.  One action of   *)
(* this model is one such run-to-await segment.  The stage functions run  *)
(* in thread-pool executors and never touch the registry; their result    *)
(* is the nondeterministic input of the action that resumes the driver.   *)
(***************************************************************************)
EXTENDS Integers, FiniteSets, Sequences, TLC

\* ------------------------------------------------------------------ bounds
MaxVideos == 3          \* ids uuid4 hands out in one run
MaxTime == 8            \* last day the clock reaches

\* --------------------------------------------------------------- constants
MAX_CONCURRENT_VIDEOS == 2
VIDEO_RETENTION_DAYS == 7

Ids == 1..MaxVideos

\* VideoStatus
QUEUED == "queued"
GENERATING_SCRIPT == "generating_script"
RENDERING_VIDEO == "rendering_video"
COMPLETED == "completed"
FAILED == "failed"
VideoStatus == {QUEUED, GENERATING_SCRIPT, RENDERING_VIDEO, COMPLETED, FAILED}

\* Python's None for the Optional[str] fields
None == "<None>"
\* video_path: None, or the path os.path.join(videos_dir, f"{video_id}.mp4")
NoPath == [set |-> FALSE, of |-> 0]
FinalPath(id) == [set |-> TRUE, of |-> id]
\* script texts, named after the call of generate_script that produced them
NoScript == None
Scripts == {"cleaned", "validated", "voiceover"}

\* VideoInfo as create_video builds it
NewVideoInfo(id, t) ==
    [video_id |-> id, status |-> QUEUED, message |-> "Video generation queued",
     video_path |-> NoPath, created_at |-> t, script_content |-> NoScript,
     error_details |-> None, progress |-> 0]

VARIABLES
    videos,     \* VideoStorage._videos: id -> VideoInfo
    lock,       \* VideoStorage._lock: "free" or "held"
    loop,       \* the event-loop thread: "running" or "blocked"
    task,       \* dispatched generate_video_task instances: id -> frame
    files,      \* artifact files present under VIDEOS_DIR
    now,        \* datetime.utcnow() as the event loop last read it, in days
    nextId,     \* the next value uuid.uuid4() returns
    resp,       \* the response to the last POST /videos; under RegistrySpec
                \* the last call of a registry method and what it returned
    watch       \* the executor calls that hit their timeout, and those of
                \* them whose worker thread is still running; the program
                \* never reads this, and it is recorded only under the
                \* specifications that start with watch.on

vars == <<videos, lock, loop, task, files, now, nextId, resp, watch>>

NoResp == 0

NotWatching == [on |-> FALSE, timeouts |-> {}, late |-> {}]
Watching == [on |-> TRUE, timeouts |-> {}, late |-> {}]

Init ==
    /\ watch = NotWatching
    /\ videos = <<>>
    /\ lock = "free"
    /\ loop = "running"
    /\ task = <<>>
    /\ files = {}
    /\ now = 0
    /\ nextId = 1
    /\ resp = NoResp

\* ---------------------------------------------------------------- registry
\* threading.Lock() is not reentrant
LockReentrant == FALSE

ActiveStatuses_NoQueued == {GENERATING_SCRIPT, RENDERING_VIDEO}

ActiveStatuses == {QUEUED, GENERATING_SCRIPT, RENDERING_VIDEO}

\* variant: only the records being rendered are counted
get_active_video_count_RenderingOnly(v) ==
    Cardinality({i \in DOMAIN v : v[i].status = RENDERING_VIDEO})

get_active_video_count(v) ==
    Cardinality({i \in DOMAIN v : v[i].status \in ActiveStatuses})

\* variant: the record is built and returned but not stored
create_video_NotStored(v, id, t) == v

create_video(v, id, t) ==
    [i \in DOMAIN v \cup {id} |-> IF i = id THEN NewVideoInfo(id, t) ELSE v[i]]

\* names every pydantic BaseModel instance answers to besides its fields
\* (methods such as copy, dict, json, model_dump)
ModelAttributes == {"copy"}

\* hasattr(video_info, key): true of the fields and of the other attributes
HasAttr(info, key) == key \in DOMAIN info \cup ModelAttributes

\* setattr(video_info, key, value): BaseModel.__setattr__ raises ValueError
\* ('object has no field') for a name that is not a field of the model
SetAttrRaises(info, key) == key \notin DOMAIN info

ApplyUpdates(info, updates) ==
    [k \in DOMAIN info |->
        IF k \in DOMAIN updates /\ HasAttr(info, k) THEN updates[k] ELSE info[k]]

update_video(v, id, updates) ==
    IF id \notin DOMAIN v
    THEN [raised |-> TRUE, videos |-> v]
    ELSE [raised |-> FALSE,
          videos |-> [v EXCEPT ![id] = ApplyUpdates(@, updates)]]

\* the loop of update_video over updates.items(), in the order the caller
\* wrote the keyword arguments: items is a sequence of <<key, value>>
RECURSIVE ApplyItems(_, _)
ApplyItems(info, items) ==
    IF items = <<>> THEN [raised |-> None, info |-> info]
    ELSE LET key == Head(items)[1]
             value == Head(items)[2]
         IN  IF ~HasAttr(info, key) THEN ApplyItems(info, Tail(items))
             ELSE IF SetAttrRaises(info, key)
                  THEN [raised |-> "ValueError", info |-> info]
                  ELSE ApplyItems([info EXCEPT ![key] = value], Tail(items))

\* update_video that stores a record for an id it does not find
update_video_items_Upsert(v, id, items) ==
    LET w == IF id \in DOMAIN v THEN v ELSE create_video(v, id, 0)
        r == ApplyItems(w[id], items)
    IN  [raised |-> r.raised, videos |-> [w EXCEPT ![id] = r.info]]

\* update_video for any keyword arguments; the objects it stores are mutable,
\* so the attributes set before an exception stay set
update_video_items(v, id, items) ==
    IF id \notin DOMAIN v
    THEN [raised |-> "VideoNotFoundError", videos |-> v]
    ELSE LET r == ApplyItems(v[id], items)
         IN  [raised |-> r.raised, videos |-> [v EXCEPT ![id] = r.info]]

\* get_video that answers for an id it does not find
get_video_Default(v, id) == [raised |-> None, ret |-> <<id>>]

\* get_video: the stored object itself, named here by its id
get_video(v, id) ==
    IF id \notin DOMAIN v
    THEN [raised |-> "VideoNotFoundError", ret |-> <<>>]
    ELSE [raised |-> None, ret |-> <<id>>]

\* list(self._videos.values()): a dict keeps the order of first insertion,
\* and ids are inserted in increasing order
RECURSIVE Values(_)
Values(S) ==
    IF S = {} THEN <<>>
    ELSE LET m == CHOOSE x \in S : \A y \in S : x <= y
         IN  <<m>> \o Values(S \ {m})

\* sorted(videos, key=created_at, reverse=True) is stable: of two records
\* with one created_at the one that came first in the input stays first
RECURSIVE InsertDesc(_, _, _)
InsertDesc(v, s, x) ==
    IF s = <<>> THEN <<x>>
    ELSE IF v[Head(s)].created_at >= v[x].created_at
         THEN <<Head(s)>> \o InsertDesc(v, Tail(s), x)
         ELSE <<x>> \o s

RECURSIVE Sorted(_, _)
Sorted(v, s) ==
    IF s = <<>> THEN <<>>
    ELSE InsertDesc(v, Sorted(v, SubSeq(s, 1, Len(s) - 1)), s[Len(s)])

\* list_videos without the sort: the records in the order of the dict
list_videos_Unsorted(v, status) ==
    LET all == Values(DOMAIN v)
    IN  IF status # None
        THEN SelectSeq(all, LAMBDA i : v[i].status = status)
        ELSE all

\* list_videos: the stored objects, named by their ids
list_videos(v, status) ==
    LET all == Values(DOMAIN v)
        kept == IF status # None
                THEN SelectSeq(all, LAMBDA i : v[i].status = status)
                ELSE all
    IN  Sorted(v, kept)

\* reading a record through a reference a registry method returned: the
\* methods return the object kept in self._videos, not a copy of it
Through(v, ref) == v[ref]

Remove(v, id) == [i \in DOMAIN v \ {id} |-> v[i]]

\* os.path.exists / os.remove on the artifact of a record
Exists(fs, path) == path.set /\ path \in fs

\* The body of delete_video once get_video could take the lock; rm_ok tells
\* whether os.remove succeeds. The try catches VideoNotFoundError only, so
\* the OSError of a failed os.remove leaves the method, before the del
delete_video_body(v, fs, id, rm_ok) ==
    IF id \notin DOMAIN v
    THEN [ret |-> FALSE, raised |-> None, videos |-> v, files |-> fs]
    ELSE IF Exists(fs, v[id].video_path) /\ ~rm_ok
    THEN [ret |-> FALSE, raised |-> "OSError", videos |-> v, files |-> fs]
    ELSE [ret |-> TRUE, raised |-> None, videos |-> Remove(v, id),
          files |-> IF Exists(fs, v[id].video_path)
                    THEN fs \ {v[id].video_path} ELSE fs]

\* delete_video takes self._lock and then calls self.get_video, which takes
\* self._lock again: on a non-reentrant lock the calling thread never returns
delete_video_blocks == ~LockReentrant

\* get_stats takes self._lock and then calls self.get_active_video_count,
\* which takes self._lock again
get_stats_blocks == ~LockReentrant

\* The dict get_stats builds once get_active_video_count could take the lock
get_stats(v) ==
    [total_videos |-> Cardinality(DOMAIN v),
     active_videos |-> get_active_video_count(v),
     status_breakdown |->
        [s \in VideoStatus |-> Cardinality({i \in DOMAIN v : v[i].status = s})]]

\* cleanup_old_videos: the ids it collects under the lock
videos_to_delete(v, t) ==
    {i \in DOMAIN v : v[i].created_at < t - VIDEO_RETENTION_DAYS}

\* ------------------------------------------------------------- exceptions
\* VideoGenerationError(message, details): str(e) is its message
Error(type, message, details) ==
    [type |-> type, message |-> message, details |-> details]
Str(e) == e.message

\* what str() of an exception raised inside an external call may be
ExternalErrorTexts == {"", "external error"}

\* generate_script's outer handler (script_generator.py:110-116)
WrapScriptError(e) ==
    Error("ScriptGenerationError", "Failed to generate Manim script", Str(e))
\* process_video's handler (video_processor.py:67-73)
WrapProcessingError(e) ==
    Error("VideoProcessingError", "Failed to process video", Str(e))

VideoNotFound == Error("VideoNotFoundError", "Video not found", None)

\* ---------------------------------------------------- the pipeline driver
\* variants of the definitions below, each changed as a slip in the code
\* would change it
UpdGeneratingScript_WrongStatus ==
    [status |-> RENDERING_VIDEO, message |-> "Generating Manim script...",
     progress |-> 25]
UpdRendering_LowProgress ==
    [status |-> RENDERING_VIDEO, message |-> "Rendering video...", progress |-> 5]
UpdRendering_SetsPath ==
    [status |-> RENDERING_VIDEO, message |-> "Rendering video...", progress |-> 50,
     video_path |-> [set |-> TRUE, of |-> 0]]
UpdCompleted_NoProgress(path) ==
    [status |-> COMPLETED, message |-> "Video generated successfully",
     video_path |-> path]
UpdCompleted_NoPath(path) ==
    [status |-> COMPLETED, message |-> "Video generated successfully",
     progress |-> 100]
UpdFailed_ResetsProgress(e) ==
    [status |-> FAILED, message |-> "Video generation failed",
     error_details |-> Str(e), progress |-> 0]
UpdFailed_ClearsScript(e) ==
    [status |-> FAILED, message |-> "Video generation failed",
     error_details |-> Str(e), script_content |-> NoScript]
UpdFailed_Details(e) ==
    [status |-> FAILED, message |-> "Video generation failed",
     error_details |-> e.details]

\* the keyword arguments of the driver's five update_video calls
UpdGeneratingScript ==
    [status |-> GENERATING_SCRIPT, message |-> "Generating Manim script...",
     progress |-> 25]
\* variant: the write after stage 1 stores the progress but not the script
UpdScript_ProgressOnly(script) == [progress |-> 40]

UpdScript(script) == [script_content |-> script, progress |-> 40]
UpdRendering ==
    [status |-> RENDERING_VIDEO, message |-> "Rendering video...", progress |-> 50]
UpdCompleted(path) ==
    [status |-> COMPLETED, message |-> "Video generated successfully",
     video_path |-> path, progress |-> 100]
UpdFailed(e) ==
    [status |-> FAILED, message |-> "Video generation failed",
     error_details |-> Str(e)]

\* a frame of generate_video_task: where it is suspended, the script it
\* holds, and how its two stages ended
NewTask == [pc |-> "dispatched", script |-> NoScript, s1 |-> "pending", s2 |-> "pending"]
\* the frame of a task that returned (or crashed): its locals are gone
Finished(frame) == IF frame.pc \in {"done", "crashed"}
                   THEN [frame EXCEPT !.script = NoScript] ELSE frame

\* variant: the task is put back for another run after recording the failure
OnException_Retry(v, id, e) ==
    LET r == update_video(v, id, UpdFailed(e))
    IN  [videos |-> r.videos, pc |-> IF r.raised THEN "crashed" ELSE "dispatched"]

\* variant: the failure is recorded and the task goes on to the renderer
OnException_Continues(v, id, e) ==
    LET r == update_video(v, id, UpdFailed(e))
    IN  [videos |-> r.videos, pc |-> IF r.raised THEN "crashed" ELSE "await_render"]

\* `except Exception as e` of generate_video_task: the FAILED write; when it
\* raises too (record gone) the exception leaves the task
OnException(v, id, e) ==
    LET r == update_video(v, id, UpdFailed(e))
    IN  [videos |-> r.videos, pc |-> IF r.raised THEN "crashed" ELSE "done"]

\* routes.py:47-58: first write, then generate_script up to its first await
StartSegment(v, id) ==
    LET r == update_video(v, id, UpdGeneratingScript)
    IN  IF r.raised THEN OnException(v, id, VideoNotFound)
        ELSE [videos |-> r.videos, pc |-> "await_generate"]

\* routes.py:62-75: the two writes after stage 1, then process_video up to its
\* await; tmp_ok is whether tempfile.mkdtemp succeeded
RenderingSegment(v, id, script, tmp_ok) ==
    LET r1 == update_video(v, id, UpdScript(script))
        r2 == update_video(r1.videos, id, UpdRendering)
    IN  IF r1.raised THEN OnException(v, id, VideoNotFound)
        ELSE IF r2.raised THEN OnException(r1.videos, id, VideoNotFound)
        ELSE IF ~tmp_ok
             THEN OnException(r2.videos, id,
                      WrapProcessingError(Error("OSError", "mkdtemp failed", None)))
        ELSE [videos |-> r2.videos, pc |-> "await_render"]

\* routes.py:78-86: the COMPLETED write
CompletedSegment(v, id, path) ==
    LET r == update_video(v, id, UpdCompleted(path))
    IN  IF r.raised THEN OnException(v, id, VideoNotFound)
        ELSE [videos |-> r.videos, pc |-> "done"]

Running == loop = "running" /\ lock = "free"

\* asyncio.wait_for gives up on a call: the wrapped future is cancelled, the
\* worker thread of run_in_executor cannot be and keeps running
Abandon(w, id, call) ==
    IF w.on THEN [w EXCEPT !.timeouts = @ \cup {<<id, call>>},
                           !.late = @ \cup {<<id, call>>}]
    ELSE w
\* subprocess.run(timeout=...) kills the renderer: nothing keeps running
Expire(w, id, call) ==
    IF w.on THEN [w EXCEPT !.timeouts = @ \cup {<<id, call>>}] ELSE w

Suspended(id, pc) == id \in DOMAIN task /\ task[id].pc = pc

\* ------------------------------------------------------------------ actions
\* variants of the admission check: off by one; counting every record
AdmissionRejects_OffByOne(v) == get_active_video_count(v) > MAX_CONCURRENT_VIDEOS
AdmissionRejects_CountsAll(v) == Cardinality(DOMAIN v) >= MAX_CONCURRENT_VIDEOS

\* routes.py:112: the admission check
AdmissionRejects(v) == get_active_video_count(v) >= MAX_CONCURRENT_VIDEOS

\* POST /videos
\* POST /videos, answering too_many (HTTPException 429) or created (the
\* VideoResponse of the new record)
SubmitWith(too_many, created) ==
    /\ Running
    /\ IF AdmissionRejects(videos)
       THEN /\ resp' = too_many
            /\ UNCHANGED <<videos, task, nextId>>
       ELSE /\ nextId <= MaxVideos
            /\ videos' = create_video(videos, nextId, now)
            /\ task' = [i \in DOMAIN task \cup {nextId} |->
                           IF i = nextId THEN NewTask ELSE task[i]]
            /\ nextId' = nextId + 1
            /\ resp' = created
    /\ UNCHANGED <<lock, loop, files, now, watch>>

\* POST /videos with its answer kept as the status code alone
Submit == SubmitWith(429, 200)

\* the background task starts
TaskStart(id) ==
    /\ Running
    /\ Suspended(id, "dispatched")
    /\ LET r == StartSegment(videos, id)
       IN  /\ videos' = r.videos
           /\ task' = [task EXCEPT ![id].pc = r.pc]
    /\ UNCHANGED <<lock, loop, files, now, nextId, resp, watch>>

\* the first Gemini call returns, raises or times out (no fallback)
GenerateReturn(id) ==
    /\ Running
    /\ Suspended(id, "await_generate")
    /\ \E out \in {"ok", "raised", "timeout"} :
         IF out = "ok"
         THEN /\ task' = [task EXCEPT ![id].pc = "await_validate",
                                      ![id].script = "cleaned"]
              /\ UNCHANGED <<videos, watch>>
         ELSE \E text \in ExternalErrorTexts :
                LET inner == IF out = "timeout"
                             THEN Error("ScriptGenerationError", "API call timed out", None)
                             ELSE Error("Exception", text, None)
                    r == OnException(videos, id, WrapScriptError(inner))
                IN  /\ videos' = r.videos
                    /\ task' = [task EXCEPT ![id] =
                                   Finished([@ EXCEPT !.pc = r.pc, !.s1 = "failed"])]
                    /\ watch' = IF out = "timeout"
                                THEN Abandon(watch, id, "generate") ELSE watch
    /\ UNCHANGED <<lock, loop, files, now, nextId, resp>>

\* a validation call whose timeout is not caught
ValidatedScript_NoFallback(cleaned, out) ==
    IF out = "ok" THEN "validated" ELSE IF out = "timeout" THEN NoScript ELSE cleaned

\* the validation call: its text, or the unvalidated script when it timed out
\* (asyncio.TimeoutError) or failed inside (_validate_and_fix_script's handler)
ValidatedScript(cleaned, out) ==
    IF out = "ok" THEN "validated" ELSE cleaned

ValidateReturn(id) ==
    /\ Running
    /\ Suspended(id, "await_validate")
    /\ \E out \in {"ok", "error", "timeout"} :
         /\ task' = [task EXCEPT ![id].pc = "await_voiceover",
                                 ![id].script = ValidatedScript(@, out)]
         /\ watch' = IF out = "timeout"
                     THEN Abandon(watch, id, "validate") ELSE watch
    /\ UNCHANGED <<videos, lock, loop, files, now, nextId, resp>>

\* the text generate_script returns after the voiceover call: the text
\* _add_voiceover_functionality returned (Gemini's, or its own patch of the
\* script when Gemini failed), or the validated script on asyncio.TimeoutError
VoiceoverScript(validated, out) ==
    IF out = "timeout" THEN validated ELSE "voiceover"

\* the voiceover call, then the driver's writes and the start of rendering
VoiceoverReturn(id) ==
    /\ Running
    /\ Suspended(id, "await_voiceover")
    /\ \E out \in {"ok", "error", "timeout"}, tmp_ok \in BOOLEAN :
         LET script == VoiceoverScript(task[id].script, out)
             r == RenderingSegment(videos, id, script, tmp_ok)
         IN  /\ videos' = r.videos
             /\ task' = [task EXCEPT ![id] =
                            Finished([@ EXCEPT !.pc = r.pc, !.script = script,
                                               !.s1 = "ok",
                                               !.s2 = IF tmp_ok THEN "pending"
                                                      ELSE "failed"])]
             /\ watch' = IF out = "timeout"
                         THEN Abandon(watch, id, "voiceover") ELSE watch
    /\ UNCHANGED <<lock, loop, files, now, nextId, resp>>

RenderOutcomes == {"ok", "nonzero_exit", "timeout", "no_output", "copy_failed"}

\* what _run_manim / _move_to_permanent_location raise for a failed outcome
RenderError(out, text) ==
    CASE out = "nonzero_exit" ->
           Error("VideoProcessingError", "Manim execution failed: ", None)
      [] out = "timeout" ->
           Error("VideoProcessingError", "Video generation timed out", None)
      [] out = "no_output" ->
           Error("VideoProcessingError", "No video file generated by Manim", None)
      [] OTHER -> Error("OSError", text, None)

\* the renderer returns: the artifact is moved and COMPLETED written, or the
\* error is wrapped and FAILED written
RenderReturn(id) ==
    /\ Running
    /\ Suspended(id, "await_render")
    /\ \E out \in RenderOutcomes :
         IF out = "ok"
         THEN LET r == CompletedSegment(videos, id, FinalPath(id))
              IN  /\ videos' = r.videos
                  /\ files' = files \cup {FinalPath(id)}
                  /\ task' = [task EXCEPT ![id] =
                                 Finished([@ EXCEPT !.pc = r.pc, !.s2 = "ok"])]
                  /\ UNCHANGED watch
         ELSE \E text \in ExternalErrorTexts :
                LET r == OnException(videos, id,
                                     WrapProcessingError(RenderError(out, text)))
                IN  /\ videos' = r.videos
                    /\ task' = [task EXCEPT ![id] =
                                   Finished([@ EXCEPT !.pc = r.pc, !.s2 = "failed"])]
                    /\ watch' = IF out = "timeout"
                                THEN Expire(watch, id, "render") ELSE watch
                    /\ UNCHANGED files
    /\ UNCHANGED <<lock, loop, now, nextId, resp>>

\* DELETE /videos/{id}
DeleteRequest(id) ==
    /\ Running
    /\ IF delete_video_blocks
       THEN /\ lock' = "held"
            /\ loop' = "blocked"
            /\ UNCHANGED <<videos, files, resp>>
       ELSE \E rm_ok \in BOOLEAN :
              LET r == delete_video_body(videos, files, id, rm_ok)
              IN  /\ videos' = r.videos
                  /\ files' = r.files
                  /\ UNCHANGED <<lock, loop, resp>>
    /\ UNCHANGED <<task, now, nextId, watch>>

RECURSIVE DeleteAll(_, _, _, _)
\* the loop of cleanup_old_videos over the ids it collected, in the order of
\* the dict; an exception of delete_video ends it
DeleteAll(v, fs, ids, rm_ok) ==
    IF ids = {} THEN [raised |-> None, videos |-> v, files |-> fs]
    ELSE LET i == CHOOSE x \in ids : \A y \in ids : x <= y
             r == delete_video_body(v, fs, i, rm_ok)
         IN  IF r.raised # None
             THEN [raised |-> r.raised, videos |-> r.videos, files |-> r.files]
             ELSE DeleteAll(r.videos, r.files, ids \ {i}, rm_ok)

\* POST /cleanup
CleanupRequest ==
    /\ Running
    /\ LET old == videos_to_delete(videos, now)
       IN  IF old # {} /\ delete_video_blocks
           THEN /\ lock' = "held"
                /\ loop' = "blocked"
                /\ UNCHANGED <<videos, files, resp>>
           ELSE \E rm_ok \in BOOLEAN :
                  LET r == DeleteAll(videos, files, old, rm_ok)
                  IN  /\ videos' = r.videos
                      /\ files' = r.files
                      /\ UNCHANGED <<lock, loop, resp>>
    /\ UNCHANGED <<task, now, nextId, watch>>

\* GET /stats
StatsRequest ==
    /\ Running
    /\ IF get_stats_blocks
       THEN lock' = "held" /\ loop' = "blocked"
       ELSE UNCHANGED <<lock, loop>>
    /\ UNCHANGED <<videos, task, files, now, nextId, resp, watch>>

\* the days on which the loop reads the clock
Days == {0, MaxTime}

\* time passes between two segments of the event loop
Tick ==
    /\ loop = "running"
    /\ \E d \in Days : d > now /\ now' = d
    /\ UNCHANGED <<videos, lock, loop, task, files, nextId, resp, watch>>

Next ==
    \/ Submit
    \/ \E id \in Ids : TaskStart(id)
    \/ \E id \in Ids : GenerateReturn(id)
    \/ \E id \in Ids : ValidateReturn(id)
    \/ \E id \in Ids : VoiceoverReturn(id)
    \/ \E id \in Ids : RenderReturn(id)
    \/ \E id \in Ids : DeleteRequest(id)
    \/ CleanupRequest
    \/ StatsRequest
    \/ Tick

Spec == Init /\ [][Next]_vars

\* the driver steps are scheduled by the event loop whenever they can run, and
\* every stage operation eventually returns, raises or times out
LiveSpec ==
    /\ Spec
    /\ \A id \in Ids :
         /\ WF_vars(TaskStart(id))
         /\ WF_vars(GenerateReturn(id))
         /\ WF_vars(ValidateReturn(id))
         /\ WF_vars(VoiceoverReturn(id))
         /\ WF_vars(RenderReturn(id))

\* --------------------------------------------- the stages and their timeouts
StageJobs == 2

\* what an abandoned call would have returned, had it been awaited
LateText(call) ==
    CASE call = "generate"  -> "cleaned"
      [] call = "validate"  -> "validated"
      [] call = "voiceover" -> "voiceover"

\* the late text is stored in the record
LateReturn_Surfaces(id, call) ==
    /\ <<id, call>> \in watch.late
    /\ watch' = [watch EXCEPT !.late = @ \ {<<id, call>>}]
    /\ videos' = [videos EXCEPT ![id].script_content = LateText(call)]
    /\ UNCHANGED <<lock, loop, task, files, now, nextId, resp>>

\* the worker thread of an abandoned call ends (returns a text or raises): its
\* future was cancelled by wait_for and nothing awaits it, so the value is
\* dropped
LateReturn(id, call) ==
    /\ <<id, call>> \in watch.late
    /\ watch' = [watch EXCEPT !.late = @ \ {<<id, call>>}]
    /\ UNCHANGED <<videos, lock, loop, task, files, now, nextId, resp>>

StageInit ==
    /\ watch = Watching
    /\ videos = <<>>
    /\ lock = "free"
    /\ loop = "running"
    /\ task = <<>>
    /\ files = {}
    /\ now = 0
    /\ nextId = 1
    /\ resp = NoResp

StageNext ==
    \/ Submit /\ nextId' <= StageJobs + 1
    \/ \E id \in Ids : TaskStart(id)
    \/ \E id \in Ids : GenerateReturn(id)
    \/ \E id \in Ids : ValidateReturn(id)
    \/ \E id \in Ids : VoiceoverReturn(id)
    \/ \E id \in Ids : RenderReturn(id)
    \/ \E id \in Ids, call \in {"generate", "validate", "voiceover"} :
         LateReturn(id, call)

\* jobs submitted to a service nobody deletes from, with the timeouts recorded
StageSpec == StageInit /\ [][StageNext]_vars

\* ------------------------------------------------------- the read routes
QueryJobs == 2

NoUrl == [set |-> FALSE, of |-> 0, route |-> None]
\* f"/api/v1/videos/{video_id}/download"
DownloadUrl(id) == [set |-> TRUE, of |-> id, route |-> "download"]
\* f"/api/v1/videos/{video_id}/status"
StatusUrl(id) == [set |-> TRUE, of |-> id, route |-> "status"]

\* resp under QuerySpec: the route, the id asked for, the HTTP status code,
\* and the fields of the body (those the route does not send are blank)
NoBody ==
    [status |-> None, message |-> None, video_url |-> NoUrl, created_at |-> 0,
     progress |-> 0, script_content |-> NoScript, path |-> NoPath]
Reply(op, id, code, body) == [op |-> op, id |-> id, code |-> code, body |-> body]
NoReply == Reply("none", 0, 0, NoBody)

\* every handler below first calls storage.get_video; VideoNotFoundError is
\* turned into a 404 by video_not_found_handler (exceptions.py:43-48)
NotFound(op, id) == Reply(op, id, 404, NoBody)

\* a status route that reports every record as finished
get_video_status_Stale(v, id) ==
    IF get_video(v, id).raised # None THEN NotFound("status", id)
    ELSE Reply("status", id, 200,
               [NoBody EXCEPT !.status = v[id].status,
                              !.message = v[id].message,
                              !.video_url = IF v[id].status = COMPLETED
                                            THEN DownloadUrl(id) ELSE NoUrl,
                              !.created_at = v[id].created_at,
                              !.progress = 100])

\* GET /videos/{id}/status
get_video_status(v, id) ==
    IF get_video(v, id).raised # None THEN NotFound("status", id)
    ELSE Reply("status", id, 200,
               [NoBody EXCEPT !.status = v[id].status,
                              !.message = v[id].message,
                              !.video_url = IF v[id].status = COMPLETED
                                            THEN DownloadUrl(id) ELSE NoUrl,
                              !.created_at = v[id].created_at,
                              !.progress = v[id].progress])

\* a download route that does not look at the status
download_video_AnyStatus(v, fs, id) ==
    IF get_video(v, id).raised # None THEN NotFound("download", id)
    ELSE IF ~Exists(fs, v[id].video_path) THEN Reply("download", id, 404, NoBody)
    ELSE Reply("download", id, 200, [NoBody EXCEPT !.path = v[id].video_path])

\* GET /videos/{id}/download
download_video(v, fs, id) ==
    IF get_video(v, id).raised # None THEN NotFound("download", id)
    ELSE IF v[id].status # COMPLETED THEN Reply("download", id, 400, NoBody)
    ELSE IF ~Exists(fs, v[id].video_path) THEN Reply("download", id, 404, NoBody)
    ELSE Reply("download", id, 200, [NoBody EXCEPT !.path = v[id].video_path])

\* GET /videos/{id}/script
get_video_script(v, id) ==
    IF get_video(v, id).raised # None THEN NotFound("script", id)
    ELSE IF v[id].script_content = NoScript THEN Reply("script", id, 404, NoBody)
    ELSE Reply("script", id, 200,
               [NoBody EXCEPT !.script_content = v[id].script_content,
                              !.status = v[id].status])

\* the VideoResponse POST /videos returns for the record it stored
create_video_response(v, id) ==
    Reply("create", id, 200,
          [NoBody EXCEPT !.status = v[id].status,
                         !.message = v[id].message,
                         !.video_url = StatusUrl(id),
                         !.created_at = v[id].created_at,
                         !.progress = v[id].progress])

StatusRequest(id) ==
    /\ Running
    /\ resp' = get_video_status(videos, id)
    /\ UNCHANGED <<videos, lock, loop, task, files, now, nextId, watch>>

DownloadRequest(id) ==
    /\ Running
    /\ resp' = download_video(videos, files, id)
    /\ UNCHANGED <<videos, lock, loop, task, files, now, nextId, watch>>

ScriptRequest(id) ==
    /\ Running
    /\ resp' = get_video_script(videos, id)
    /\ UNCHANGED <<videos, lock, loop, task, files, now, nextId, watch>>

QueryInit ==
    /\ watch = NotWatching
    /\ videos = <<>>
    /\ lock = "free"
    /\ loop = "running"
    /\ task = <<>>
    /\ files = {}
    /\ now = 0
    /\ nextId = 1
    /\ resp = NoReply

QueryNext ==
    \/ /\ SubmitWith(Reply("create", 0, 429, NoBody),
                     create_video_response(create_video(videos, nextId, now),
                                           nextId))
       /\ nextId' <= QueryJobs + 1
    \/ \E id \in Ids : TaskStart(id)
    \/ \E id \in Ids : GenerateReturn(id)
    \/ \E id \in Ids : ValidateReturn(id)
    \/ \E id \in Ids : VoiceoverReturn(id)
    \/ \E id \in Ids : RenderReturn(id)
    \/ \E id \in 1..QueryJobs : StatusRequest(id)
    \/ \E id \in 1..QueryJobs : DownloadRequest(id)
    \/ \E id \in 1..QueryJobs : ScriptRequest(id)

\* jobs submitted and then read through the status, download and script
\* routes between the steps of their drivers
QuerySpec == QueryInit /\ [][QueryNext]_vars

\* ------------------------------------------- the registry called directly
RegIds == 2

\* resp under RegistrySpec: the last call (method, id, argument), the
\* exception it raised, and what it returned (ret: records, as references
\* its caller holds until the next call; flag: a bool; n: an int)
NoStats == get_stats(<<>>)
Call(op, id, arg, raised, ret, flag, n) ==
    [op |-> op, id |-> id, arg |-> arg, raised |-> raised, ret |-> ret,
     flag |-> flag, n |-> n, stats |-> NoStats]
NoCall == Call("none", 0, None, None, <<>>, None, 0)
NoReturn == "<no return>"
Bool(b) == IF b THEN "True" ELSE "False"

\* storage.create_video(id, VideoInfo(... created_at=datetime.now()))
ApiCreate(id) ==
    /\ Running
    /\ id \in DOMAIN videos \/ id = Cardinality(DOMAIN videos) + 1
    /\ videos' = create_video(videos, id, now)
    /\ resp' = Call("create", id, None, None, <<id>>, None, 0)
    /\ UNCHANGED <<lock, loop, task, files, now, nextId, watch>>

\* storage.get_video(id)
ApiGet(id) ==
    /\ Running
    /\ LET r == get_video(videos, id)
       IN  resp' = Call("get", id, None, r.raised, r.ret, None, 0)
    /\ UNCHANGED <<videos, lock, loop, task, files, now, nextId, watch>>

\* the keyword arguments the callers pass: fields of the model (those set at
\* creation among them), a name the model does not have, and a name of a
\* method of the model
UpdateInputs(id) ==
    [generating |-> <<<<"status", GENERATING_SCRIPT>>, <<"foo", 1>>,
                      <<"progress", 50>>>>,
     completed  |-> <<<<"status", COMPLETED>>, <<"video_path", FinalPath(id)>>,
                      <<"progress", 100>>>>,
     unknown    |-> <<<<"foo", 1>>>>,
     identity   |-> <<<<"video_id", 0>>, <<"created_at", 0>>>>,
     method     |-> <<<<"status", RENDERING_VIDEO>>, <<"copy", 1>>,
                      <<"progress", 50>>>>]
UpdateNames == {"generating", "completed", "unknown", "identity", "method"}

\* storage.update_video(id, **items)
ApiUpdate(id, name) ==
    /\ Running
    /\ LET r == update_video_items(videos, id, UpdateInputs(id)[name])
       IN  /\ videos' = r.videos
           /\ resp' = Call("update", id, name, r.raised,
                           IF r.raised = None THEN <<id>> ELSE <<>>,
                           None, 0)
    /\ UNCHANGED <<lock, loop, task, files, now, nextId, watch>>

\* storage.delete_video(id)
ApiDelete(id) ==
    /\ Running
    /\ IF delete_video_blocks
       THEN /\ lock' = "held"
            /\ loop' = "blocked"
            /\ resp' = Call("delete", id, None, None, <<>>, NoReturn, 0)
            /\ UNCHANGED <<videos, files>>
       ELSE \E rm_ok \in BOOLEAN :
              LET r == delete_video_body(videos, files, id, rm_ok)
              IN  /\ videos' = r.videos
                  /\ files' = r.files
                  /\ resp' = Call("delete", id, None, r.raised, <<>>,
                                  IF r.raised = None THEN Bool(r.ret)
                                  ELSE NoReturn, 0)
                  /\ UNCHANGED <<lock, loop>>
    /\ UNCHANGED <<task, now, nextId, watch>>

ListFilters == {None, QUEUED, COMPLETED}

\* storage.list_videos(status)
ApiList(status) ==
    /\ Running
    /\ LET ret == list_videos(videos, status)
       IN  resp' = Call("list", 0, status, None, ret, None, 0)
    /\ UNCHANGED <<videos, lock, loop, task, files, now, nextId, watch>>

\* storage.get_active_video_count()
ApiCount ==
    /\ Running
    /\ resp' = Call("count", 0, None, None, <<>>, None,
                    get_active_video_count(videos))
    /\ UNCHANGED <<videos, lock, loop, task, files, now, nextId, watch>>

\* storage.get_stats()
ApiStats ==
    /\ Running
    /\ IF get_stats_blocks
       THEN /\ lock' = "held"
            /\ loop' = "blocked"
            /\ resp' = Call("stats", 0, None, None, <<>>, NoReturn, 0)
       ELSE /\ resp' = [Call("stats", 0, None, None, <<>>, None, 0)
                          EXCEPT !.stats = get_stats(videos)]
            /\ UNCHANGED <<lock, loop>>
    /\ UNCHANGED <<videos, task, files, now, nextId, watch>>

RegistryInit ==
    /\ watch = NotWatching
    /\ videos = <<>>
    /\ lock = "free"
    /\ loop = "running"
    /\ task = <<>>
    /\ files = {}
    /\ now = 0
    /\ nextId = 1
    /\ resp = NoCall

RegistryNext ==
    \/ \E id \in 1..RegIds : ApiCreate(id)
    \/ \E id \in 1..RegIds : ApiGet(id)
    \/ \E id \in 1..RegIds, name \in UpdateNames : ApiUpdate(id, name)
    \/ \E id \in 1..RegIds : ApiDelete(id)
    \/ \E status \in ListFilters : ApiList(status)
    \/ ApiCount
    \/ ApiStats
    \/ Tick

\* one thread calling the methods of VideoStorage one after the other
RegistrySpec == RegistryInit /\ [][RegistryNext]_vars

\* ------------------------------------------------------------- properties
Terminal(info) == info.status \in {COMPLETED, FAILED}
NonTerminal(v) ==
    {i \in DOMAIN v : v[i].status \in {QUEUED, GENERATING_SCRIPT, RENDERING_VIDEO}}
Kept == DOMAIN videos \cap DOMAIN videos'

\* C1: in every reachable state the number of records with a non-terminal
\* status is at most MAX_CONCURRENT_VIDEOS.
C1_CeilingNeverExceeded ==
    Cardinality(NonTerminal(videos)) <= MAX_CONCURRENT_VIDEOS

\* a submission has been answered 429 and the registry is at the ceiling
C1_Witness ==
    resp = 429 /\ Cardinality(NonTerminal(videos)) = MAX_CONCURRENT_VIDEOS

\* C2: a submission made while MAX_CONCURRENT_VIDEOS records are non-terminal
\* is answered 429 and changes nothing; a submission made while fewer are
\* non-terminal (one of them having become terminal) is answered 200 and
\* inserts a record under a new id.
C2_RejectAtCeilingAdmitBelow ==
    [][(resp' # resp \/ nextId' # nextId) =>
         IF Cardinality(NonTerminal(videos)) >= MAX_CONCURRENT_VIDEOS
         THEN resp' = 429 /\ videos' = videos /\ task' = task
         ELSE /\ resp' = 200
              /\ nextId \notin DOMAIN videos
              /\ DOMAIN videos' = DOMAIN videos \cup {nextId}]_vars

\* the ceiling was reached, one job became terminal, a further one was
\* admitted, and the submission after that was answered 429
C2_Witness ==
    /\ resp = 429
    /\ Cardinality(DOMAIN videos) = MAX_CONCURRENT_VIDEOS + 1
    /\ Cardinality(NonTerminal(videos)) = MAX_CONCURRENT_VIDEOS

AllowedTransitions ==
    {<<QUEUED, GENERATING_SCRIPT>>, <<GENERATING_SCRIPT, RENDERING_VIDEO>>,
     <<RENDERING_VIDEO, COMPLETED>>, <<QUEUED, FAILED>>,
     <<GENERATING_SCRIPT, FAILED>>, <<RENDERING_VIDEO, FAILED>>}

\* C3: every change of a record's status between two consecutive states is
\* QUEUED -> GENERATING_SCRIPT, GENERATING_SCRIPT -> RENDERING_VIDEO,
\* RENDERING_VIDEO -> COMPLETED or non-terminal -> FAILED; in particular none
\* leaves COMPLETED or FAILED and none goes back to an earlier stage.
C3_OnlyForwardTransitions ==
    [][\A i \in Kept :
          videos'[i].status # videos[i].status =>
              <<videos[i].status, videos'[i].status>> \in AllowedTransitions]_vars

\* one record went all the way to COMPLETED and another failed while rendering
C3_Witness ==
    \E i, j \in DOMAIN videos :
        /\ videos[i].status = COMPLETED
        /\ videos[j].status = FAILED /\ videos[j].progress = 50

C5_SuccessEndsCompleted ==
    \A i \in DOMAIN task \cap DOMAIN videos :
        task[i].s1 = "ok" /\ task[i].s2 = "ok" =>
            /\ task[i].pc = "done"
            /\ videos[i].status = COMPLETED
            /\ videos[i].progress = 100
            /\ videos[i].video_path = FinalPath(i)
            /\ videos[i].video_path \in files
            /\ videos[i].error_details = None

\* a job has returned from both stages successfully
C5_Witness ==
    \E i \in DOMAIN task \cap DOMAIN videos :
        task[i].s1 = "ok" /\ task[i].s2 = "ok" /\ task[i].pc = "done"

\* C6: a job whose script generation failed has status FAILED, a non-empty
\* error_details and progress 25, and its video_path is unset then and in
\* every state before.
C6_Stage1FailureEndsFailed ==
    \A i \in DOMAIN task \cap DOMAIN videos :
        /\ task[i].s1 = "failed" =>
              /\ videos[i].status = FAILED
              /\ videos[i].error_details \notin {None, ""}
              /\ videos[i].progress = 25
        /\ task[i].s1 # "ok" => videos[i].video_path = NoPath

\* the first generation call of a job has raised or timed out
C6_Witness ==
    \E i \in DOMAIN task \cap DOMAIN videos :
        task[i].s1 = "failed" /\ task[i].pc = "done"

\* C7: every record with status COMPLETED has a video_path.
C7_CompletedHasArtifact ==
    \A i \in DOMAIN videos :
        videos[i].status = COMPLETED =>
            videos[i].video_path # NoPath /\ videos[i].video_path.set

\* a record is COMPLETED
C7_Witness ==
    \E i \in DOMAIN videos : videos[i].status = COMPLETED /\ videos[i].progress = 100

\* C8: every record with status FAILED has a non-empty error_details.
C8_FailedHasErrorDetails ==
    \A i \in DOMAIN videos :
        videos[i].status = FAILED => videos[i].error_details \notin {None, ""}

\* one record failed in script generation and another in rendering
C8_Witness ==
    \E i, j \in DOMAIN videos :
        /\ videos[i].status = FAILED /\ videos[i].script_content = NoScript
        /\ videos[j].status = FAILED /\ videos[j].script_content # NoScript

\* C9: progress is an integer in 0..100, no step lowers it, and no step
\* changes it once the record is COMPLETED or FAILED.
C9_ProgressMonotone ==
    /\ [](\A i \in DOMAIN videos : videos[i].progress \in 0..100)
    /\ [][\A i \in Kept :
             /\ videos'[i].progress >= videos[i].progress
             /\ Terminal(videos[i]) => videos'[i].progress = videos[i].progress]_vars

\* one record reached 100 and another stopped at 50 when rendering failed
C9_Witness ==
    \E i, j \in DOMAIN videos :
        /\ videos[i].progress = 100
        /\ videos[j].progress = 50 /\ videos[j].status = FAILED

\* C10: every admitted job whose record is not deleted eventually becomes
\* COMPLETED or FAILED when every stage operation eventually ends, and no
\* exception leaves the driver.
C10_EveryJobEnds ==
    /\ \A i \in Ids :
         (i \in DOMAIN videos) ~> (i \notin DOMAIN videos \/ Terminal(videos[i]))
    /\ [](\A i \in DOMAIN task : task[i].pc # "crashed")

\* ------------------------------------------------ properties of the timeouts
TimedOut(id, call) == <<id, call>> \in watch.timeouts
Frame(id) == task[id]

\* C11: a timeout of the first script-generation call or of the renderer ends
\* the job FAILED; a timeout of the validation call or of the voiceover call
\* makes the stage go on with the script it had, the job goes on to the
\* remaining stages, is not failed by that timeout, and is COMPLETED with the
\* script it fell back to when the renderer succeeds.
C11_TimeoutFallbackOrFailed ==
    \A id \in DOMAIN videos :
        /\ TimedOut(id, "generate") \/ TimedOut(id, "render")
              => videos[id].status = FAILED
        /\ TimedOut(id, "validate") \/ TimedOut(id, "voiceover")
              => /\ Frame(id).pc \in {"await_voiceover", "await_render", "done"}
                 /\ Frame(id).s1 # "failed"
                 /\ Frame(id).pc = "await_voiceover"
                       => Frame(id).script = "cleaned"
                 /\ TimedOut(id, "voiceover") /\ videos[id].script_content # NoScript
                       => /\ videos[id].script_content \in {"cleaned", "validated"}
                          /\ TimedOut(id, "validate")
                                => videos[id].script_content = "cleaned"
                 /\ videos[id].status = FAILED => Frame(id).s2 = "failed"
                 /\ Frame(id).s2 = "ok" => videos[id].status = COMPLETED

\* a job whose validation and voiceover calls both timed out is COMPLETED with
\* the unvalidated script, one whose first call timed out is FAILED, and one
\* whose renderer timed out is FAILED
C11_Witness ==
    /\ \E id \in DOMAIN videos :
          /\ TimedOut(id, "validate") /\ TimedOut(id, "voiceover")
          /\ videos[id].status = COMPLETED
          /\ videos[id].script_content = "cleaned"
    /\ \E id \in DOMAIN videos :
          \/ TimedOut(id, "generate") /\ videos[id].status = FAILED
          \/ TimedOut(id, "render") /\ videos[id].status = FAILED

\* the late text of a call is nowhere in the job: not in its record and not
\* in the script its driver holds for the next stage
Unused(v, t, id, call) ==
    /\ v[id].script_content # LateText(call)
    /\ t[id].script # LateText(call)

\* C12: once a call's timeout has been reported, no step (the end of the
\* abandoned call included) writes its late result into the record or hands
\* it to a later stage: a job FAILED by the timeout of its first call stays
\* FAILED with no script, a stage that fell back keeps the script it fell back
\* to, and the end of an abandoned call changes no record, frame or file.
C12_LateResultNeverSurfaces ==
    [][/\ \A id \in DOMAIN videos :
            /\ TimedOut(id, "generate")
                  => /\ videos'[id].status = FAILED
                     /\ videos'[id].script_content = NoScript
                     /\ videos'[id].video_path = NoPath
            /\ TimedOut(id, "validate")
                  => Unused(videos', task', id, "validate")
            /\ TimedOut(id, "voiceover")
                  => Unused(videos', task', id, "voiceover")
       /\ watch'.late \subseteq watch.late /\ watch'.late # watch.late
            => UNCHANGED <<videos, task, files>>]_vars

\* abandoned calls have ended: the first call of a job that is FAILED, and the
\* validation call of a job that is COMPLETED with the script it fell back to
C12_Witness ==
    /\ \E id \in DOMAIN videos :
          /\ TimedOut(id, "generate") /\ <<id, "generate">> \notin watch.late
          /\ videos[id].status = FAILED
    /\ \E id \in DOMAIN videos :
          /\ TimedOut(id, "validate") /\ <<id, "validate">> \notin watch.late
          /\ TimedOut(id, "voiceover") /\ <<id, "voiceover">> \notin watch.late
          /\ videos[id].status = COMPLETED
          /\ videos[id].script_content = "cleaned"

\* ------------------------------------------------ properties of the registry
Others(id) == DOMAIN videos \ {id}
SameOthers(id) == \A i \in Others(id) : i \in DOMAIN videos' /\ videos'[i] = videos[i]

\* C13: create_video of an id already in the registry raises a duplicate-id
\* error and leaves the stored record as it was; of an absent id it stores a
\* new record and returns it.
C13_CreateRejectsDuplicate ==
    [][\A id \in 1..RegIds :
         ApiCreate(id) =>
           IF id \in DOMAIN videos
           THEN resp'.raised = "DuplicateID" /\ videos' = videos
           ELSE /\ resp'.raised = None /\ resp'.ret = <<id>>
                /\ DOMAIN videos' = DOMAIN videos \cup {id}
                /\ videos'[id] = NewVideoInfo(id, now)
                /\ SameOthers(id)]_vars

C15_UpdateAbsentNotFound ==
    [][\A id \in 1..RegIds, name \in UpdateNames :
         id \notin DOMAIN videos /\ ApiUpdate(id, name) =>
           resp'.raised = "VideoNotFoundError" /\ videos' = videos]_vars

\* an update of an absent id raised while another record was stored
C15_Witness ==
    /\ resp.op = "update" /\ resp.raised = "VideoNotFoundError"
    /\ resp.id \notin DOMAIN videos /\ DOMAIN videos # {}

Named(items) == {items[k][1] : k \in 1..Len(items)}
ValueOf(items, key) ==
    LET k == CHOOSE j \in 1..Len(items) : items[j][1] = key IN items[k][2]

\* C16: update_video of a stored record sets every keyword argument that
\* names a field of the model to its value, leaves every other field of the
\* record and every other record as they were, and passes over a keyword
\* argument that names no field without raising.
C16_UpdateExactlyNamedFields ==
    [][\A id \in DOMAIN videos, name \in UpdateNames :
         ApiUpdate(id, name) =>
           LET items == UpdateInputs(id)[name]
           IN  /\ resp'.raised = None
               /\ \A f \in DOMAIN videos[id] :
                     videos'[id][f] = IF f \in Named(items)
                                      THEN ValueOf(items, f)
                                      ELSE videos[id][f]
               /\ SameOthers(id)]_vars

\* C17: delete_video of a stored id returns True and removes the record;
\* of an id that is not stored it returns False and changes nothing (so a
\* second delete of one id returns False).
C17_DeleteTrueThenFalse ==
    [][\A id \in 1..RegIds :
         ApiDelete(id) =>
           IF id \in DOMAIN videos
           THEN resp'.flag = "True" /\ id \notin DOMAIN videos' /\ SameOthers(id)
           ELSE resp'.flag = "False" /\ videos' = videos]_vars

\* C18: list_videos returns each stored record once (each stored record with
\* the given status when one is given) and no other, newest created_at first.
C18_ListFilteredNewestFirst ==
    resp.op = "list" =>
        /\ {resp.ret[k] : k \in 1..Len(resp.ret)} =
              {i \in DOMAIN videos : resp.arg = None \/ videos[i].status = resp.arg}
        /\ \A j, k \in 1..Len(resp.ret) :
              j < k => /\ resp.ret[j] # resp.ret[k]
                       /\ videos[resp.ret[j]].created_at
                            >= videos[resp.ret[k]].created_at

\* a list of two records in which the one stored second, at a later time,
\* comes first, after the status of the other was updated
C18_Witness ==
    /\ resp.op = "list" /\ resp.ret = <<2, 1>>
    /\ videos[2].created_at > videos[1].created_at
    /\ videos[1].status = COMPLETED

\* C19: an update made after a method returned records does not change the
\* field values its caller reads through those records.
C19_ReturnedRecordsAreSnapshots ==
    [][\A id \in 1..RegIds, name \in UpdateNames :
         ApiUpdate(id, name) =>
           \A k \in 1..Len(resp.ret) :
               Through(videos', resp.ret[k]) = Through(videos, resp.ret[k])]_vars

C21_StatsConsistent ==
    [][ApiStats =>
         /\ resp'.flag # NoReturn
         /\ resp'.stats.total_videos = Cardinality(DOMAIN videos)
         /\ resp'.stats.active_videos = Cardinality(NonTerminal(videos))
         /\ resp'.stats.status_breakdown[QUEUED]
              + resp'.stats.status_breakdown[GENERATING_SCRIPT]
              + resp'.stats.status_breakdown[RENDERING_VIDEO]
              + resp'.stats.status_breakdown[COMPLETED]
              + resp'.stats.status_breakdown[FAILED] = Cardinality(DOMAIN videos)]_vars

\* ----------------------------------------------- properties of the read routes
\* the fields a whole update_video call of the driver leaves together
Committed(body) ==
    \/ body.status = QUEUED /\ body.progress = 0
         /\ body.message = "Video generation queued"
    \/ body.status = GENERATING_SCRIPT /\ body.progress = 25
         /\ body.message = "Generating Manim script..."
    \/ body.status = RENDERING_VIDEO /\ body.progress = 50
         /\ body.message = "Rendering video..."
    \/ body.status = COMPLETED /\ body.progress = 100
         /\ body.message = "Video generated successfully"
    \/ body.status = FAILED /\ body.progress \in {25, 50}
         /\ body.message = "Video generation failed"

\* C22: a status query of a stored id answers with the fields the record has
\* at that moment, and they are the fields one whole update left: the status,
\* message and progress of one driver write, a download URL exactly with
\* COMPLETED, and COMPLETED only with the artifact path stored.
C22_StatusReadsCommittedState ==
    [][\A id \in 1..QueryJobs :
         StatusRequest(id) /\ id \in DOMAIN videos =>
           /\ resp'.code = 200
           /\ resp'.body.status = videos[id].status
           /\ resp'.body.message = videos[id].message
           /\ resp'.body.progress = videos[id].progress
           /\ resp'.body.created_at = videos[id].created_at
           /\ resp'.body.video_url =
                IF videos[id].status = COMPLETED THEN DownloadUrl(id) ELSE NoUrl
           /\ Committed(resp'.body)
           /\ videos[id].status = COMPLETED <=> videos[id].video_path.set]_vars

\* a status query answered RENDERING_VIDEO with progress 50 while the driver
\* of that job waits for the renderer
C22_Witness ==
    /\ resp.op = "status" /\ resp.code = 200
    /\ resp.body.status = RENDERING_VIDEO /\ resp.body.progress = 50
    /\ resp.id \in DOMAIN task /\ task[resp.id].pc = "await_render"

\* C27: the download route answers 404 (not found) for an id that is not
\* stored, 400 (not ready) for a stored record whose status is not COMPLETED,
\* and sends the artifact only for a COMPLETED record: the file at its
\* video_path.
C27_DownloadOnlyWhenCompleted ==
    [][\A id \in 1..QueryJobs :
         DownloadRequest(id) =>
           /\ id \notin DOMAIN videos => resp'.code = 404
           /\ id \in DOMAIN videos /\ videos[id].status # COMPLETED
                => resp'.code = 400
           /\ resp'.code = 200
                => /\ id \in DOMAIN videos /\ videos[id].status = COMPLETED
                   /\ resp'.body.path = videos[id].video_path
                   /\ resp'.body.path \in files
           /\ resp'.code # 200 => resp'.body.path = NoPath]_vars

\* a download answered with the artifact of a COMPLETED record
C27_Witness ==
    /\ resp.op = "download" /\ resp.code = 200
    /\ resp.body.path = FinalPath(resp.id)
    /\ videos[resp.id].status = COMPLETED

Cutoff == now - VIDEO_RETENTION_DAYS

\* C23: a sweep removes every COMPLETED or FAILED record created before the
\* cutoff (now minus the retention window) and leaves every record created
\* after the cutoff stored and unchanged.
C23_SweepRemovesOldTerminal ==
    [][CleanupRequest =>
         \A i \in DOMAIN videos :
             /\ Terminal(videos[i]) /\ videos[i].created_at < Cutoff
                   => i \notin DOMAIN videos'
             /\ videos[i].created_at > Cutoff
                   => i \in DOMAIN videos' /\ videos'[i] = videos[i]]_vars

\* C24: a sweep picks for deletion no record that is QUEUED,
\* GENERATING_SCRIPT or RENDERING_VIDEO, however old, and leaves those records
\* stored.
C24_SweepSparesNonTerminal ==
    [][CleanupRequest =>
         /\ videos_to_delete(videos, now) \cap NonTerminal(videos) = {}
         /\ \A i \in NonTerminal(videos) :
               i \in DOMAIN videos' /\ videos'[i] = videos[i]]_vars

\* C25: a sweep returns and leaves nothing for the next one: a second sweep
\* at the same time finds no record to delete and changes nothing.
C25_SecondSweepDeletesNothing ==
    [][CleanupRequest =>
         /\ loop' = "running" /\ lock' = "free"
         /\ videos_to_delete(videos', now') = {}]_vars

\* C26: a delete of a record whose artifact file cannot be removed returns
\* False without raising, frees the lock, and leaves the record as it was
\* (or, when the file can be removed, removes record and file).
C26_FailedRemovalIsFailedDelete ==
    [][\A id \in DOMAIN videos :
         DeleteRequest(id) /\ Exists(files, videos[id].video_path) =>
           /\ lock' = "free" /\ loop' = "running"
           /\ \/ videos' = videos /\ files' = files
              \/ id \notin DOMAIN videos' /\ videos[id].video_path \notin files'
           /\ LET r == delete_video_body(videos, files, id, FALSE)
              IN  r.raised = None /\ r.ret = FALSE /\ r.videos = videos]_vars

\* C28: no update_video call changes the video_id or the created_at of a
\* stored record, whatever keyword arguments it is given.
C28_IdAndCreatedAtImmutable ==
    [][\A id \in DOMAIN videos, name \in UpdateNames :
         ApiUpdate(id, name) =>
           /\ videos'[id].video_id = videos[id].video_id
           /\ videos'[id].created_at = videos[id].created_at]_vars

\* C29: a record has a video_path only if its rendering stage succeeded and
\* it is COMPLETED, the path is the one the renderer returned for that job,
\* and no step changes a video_path that is set while the record is stored.
C29_ArtifactSetOnceOnSuccess ==
    /\ [](\A i \in DOMAIN videos :
             videos[i].video_path # NoPath
               => /\ videos[i].status = COMPLETED
                  /\ videos[i].video_path = FinalPath(i)
                  /\ task[i].s2 = "ok")
    /\ [][\A i \in Kept :
             videos[i].video_path # NoPath
               => videos'[i].video_path = videos[i].video_path]_vars

\* one job COMPLETED with its path while another, whose renderer failed, is
\* FAILED without a path
C29_Witness ==
    \E i, j \in DOMAIN videos :
        /\ videos[i].status = COMPLETED /\ videos[i].video_path = FinalPath(i)
        /\ videos[j].status = FAILED /\ task[j].s2 = "failed"
        /\ videos[j].video_path = NoPath

\* the renderer has been called for the job (it is executing or has ended)
RendererInvoked(id) == task[id].pc = "await_render" \/ task[id].s2 \in {"ok", "failed"}

\* C31: the renderer is called for a job only after stage 1 has returned a
\* script for that job: a job whose stage 1 raised or timed out is finished
\* without the renderer ever being called, and a timeout of the first script
\* call is a failure of stage 1.
C31_RenderOnlyAfterScript ==
    \A id \in DOMAIN task :
        /\ RendererInvoked(id) => Frame(id).s1 = "ok"
        /\ Frame(id).s1 = "failed"
             => Frame(id).pc \in {"done", "crashed"} /\ Frame(id).s2 = "pending"
        /\ TimedOut(id, "generate") => Frame(id).s1 = "failed"

\* one job ended by the timeout of its first script call, the renderer never
\* called for it, while the renderer runs for another job
C31_Witness ==
    \E i, j \in DOMAIN task :
        /\ TimedOut(i, "generate") /\ Frame(i).s1 = "failed"
        /\ Frame(i).pc = "done" /\ videos[i].status = FAILED
        /\ Frame(j).pc = "await_render" /\ Frame(j).s1 = "ok"

\* C32: whenever the renderer is executing for a job whose record is stored,
\* the record already has status RENDERING_VIDEO, progress at least 40 and, as
\* script_content, the script stage 1 returned, which is the script the
\* renderer was called with.
C32_WritesBeforeRender ==
    \A id \in DOMAIN task :
        Suspended(id, "await_render") /\ id \in DOMAIN videos
          => /\ videos[id].status = RENDERING_VIDEO
             /\ videos[id].progress >= 40
             /\ Frame(id).script # NoScript
             /\ videos[id].script_content = Frame(id).script

\* the renderer executes for a job with the voiceover script, for another
\* with the script the voiceover call fell back to
C32_Witness ==
    \E i, j \in DOMAIN videos :
        /\ Suspended(i, "await_render") /\ Suspended(j, "await_render")
        /\ videos[i].script_content # videos[j].script_content
        /\ videos[i].status = RENDERING_VIDEO

\* a stage function is executing for the job: a Gemini call in an executor
\* thread or the renderer's subprocess
StageInProgress(id) ==
    Frame(id).pc \in {"await_generate", "await_validate", "await_voiceover",
                      "await_render"}

\* C33: the registry lock is free whenever a stage function (script
\* generation, rendering) is executing for some job, so that the registry can
\* be read and written for the other jobs while the external call lasts.
C33_LockFreeDuringExternalCalls ==
    \A id \in DOMAIN task : StageInProgress(id) => lock = "free"

\* C34: every call of a registry method returns or raises and leaves the
\* registry lock free: in no reachable state is the lock still held by a call
\* that cannot go on, with the thread that made the call blocked in it.
C34_RegistryCallsReturn ==
    lock = "free" /\ loop = "running"

\* the driver of the job has been dispatched and has not ended
InFlight(id) == Frame(id).pc \notin {"done", "crashed"}

\* C35: a DELETE of the record of a job whose driver is in flight removes the
\* record, and from then on the id stays absent: no step stores a record under
\* an id that was admitted and is absent, and a step of the driver of an
\* absent record writes nothing and does not end the driver normally.
C35_DeletedRecordStaysAbsent ==
    [][\A id \in DOMAIN task :
         /\ (InFlight(id) /\ id \in DOMAIN videos /\ DeleteRequest(id))
               => id \notin DOMAIN videos'
         /\ id \notin DOMAIN videos
               => /\ id \notin DOMAIN videos'
                  /\ Frame(id)' # Frame(id)
                       => videos' = videos /\ Frame(id)'.pc # "done"]_vars

\* the drivers that have been dispatched and have not ended
DriversInFlight == {i \in DOMAIN task : InFlight(i)}

Submission == resp' # resp \/ nextId' # nextId

\* C37: a rejected submission leaves the registry and the drivers as they
\* were; an admitted one stores exactly one record, under an id that had
\* neither record nor driver, with status QUEUED and progress 0, and
\* dispatches exactly one driver, for that id; no other step stores a record
\* or dispatches, ends the existence of, or restarts a driver.
C37_RecordAndDriverTogether ==
    [][/\ Submission =>
            \/ resp' = 429 /\ videos' = videos /\ task' = task
            \/ /\ resp' = 200
               /\ \E id \in Ids \ (DOMAIN videos \cup DOMAIN task) :
                    /\ DOMAIN videos' = DOMAIN videos \cup {id}
                    /\ DOMAIN task' = DOMAIN task \cup {id}
                    /\ videos'[id].video_id = id
                    /\ videos'[id].status = QUEUED
                    /\ videos'[id].progress = 0
                    /\ Frame(id)' = NewTask
                    /\ SameOthers(id)
                    /\ \A i \in DOMAIN task : Frame(i)' = Frame(i)
       /\ ~Submission =>
            /\ DOMAIN task' = DOMAIN task
            /\ DOMAIN videos' \subseteq DOMAIN videos
            /\ \A i \in DOMAIN task :
                 Frame(i)'.pc = "dispatched" => Frame(i).pc = "dispatched"]_vars

\* a submission was rejected at the ceiling after three were admitted, each
\* record having its own driver
C37_Witness ==
    /\ resp = 429
    /\ nextId = MaxVideos + 1
    /\ DOMAIN task = DOMAIN videos
    /\ \E i \in DOMAIN task : Frame(i).pc = "dispatched" /\ videos[i].status = QUEUED

====
